---------------------------- MODULE Spec2Model ----------------------------
(***************************************************************************)
(* The dedicated game server of rustcycles (src/src/server/game.rs): the   *)
(* fixed-step loop of ServerGame::update, the accept / receive / send      *)
(* handlers, and the client registry with its generational handles.        *)
(*                                                                         *)
(* A handler is a function from the server state to the SET of states it   *)
(* can end in: every Connection::send may succeed or fail, so a handler    *)
(* that sends n messages has up to 2^n outcomes.  A panic (a free or an    *)
(* index through a handle that is not live, a fatal accept error) ends the *)
(* process: the state keeps what was done up to there and nothing runs     *)
(* after it.                                                               *)
(***************************************************************************)
EXTENDS Integers, Sequences, FiniteSets, TLC

\* Bounds of the model.
MaxConns == 2  \* connections the listener hands out in one run
MaxMsgs == 2   \* client messages written in one run
MaxTime == 3   \* largest game_time_target, in units of dt
MaxDebug == 2  \* debug items emitted in one run
MaxCalls == 4  \* calls of open and close on one console
MaxAsserts == 4 \* soft_assert! statements in one run

ConnIds == 1 .. MaxConns
\* Input is an opaque value the server copies; NoInput is what Player::new
\* starts with.
Inputs == {"left"}
NoInput == "none"

---------------------------------------------------------------------------
\* fyrox Pool<T>: records with a generation and an optional payload, and a
\* stack of free indices.  A handle is an index (from 0) and a generation.

Handle(index, generation) == [index |-> index, generation |-> generation]

PoolNew == [records |-> <<>>, free_stack |-> <<>>]

IsValidHandle(pool, h) ==
    /\ h.index + 1 \in DOMAIN pool.records
    /\ pool.records[h.index + 1].generation = h.generation
    /\ pool.records[h.index + 1].payload # <<>>

Borrow(pool, h) == pool.records[h.index + 1].payload[1]

\* The handle the next spawn returns: the last freed index with its
\* generation raised, or a new record at the end with generation 1.
SpawnHandle(pool) ==
    IF pool.free_stack = <<>>
    THEN Handle(Len(pool.records), 1)
    ELSE LET i == pool.free_stack[Len(pool.free_stack)]
         IN  Handle(i, pool.records[i + 1].generation + 1)

PoolSpawn(pool, x) ==
    LET h == SpawnHandle(pool)
        r == [generation |-> h.generation, payload |-> <<x>>]
    IN  IF pool.free_stack = <<>>
        THEN [pool EXCEPT !.records = Append(@, r)]
        ELSE [records |-> [pool.records EXCEPT ![h.index + 1] = r],
              free_stack |-> SubSeq(pool.free_stack, 1, Len(pool.free_stack) - 1)]

\* Pool::free of a live handle (it panics on any other: see disconnect).
PoolFree(pool, h) ==
    [records |-> [pool.records EXCEPT ![h.index + 1].payload = <<>>],
     free_stack |-> Append(pool.free_stack, h.index)]

PoolSet(pool, h, x) == [pool EXCEPT !.records[h.index + 1].payload = <<x>>]

RECURSIVE PairIterFrom(_, _)
PairIterFrom(pool, i) ==
    IF i > Len(pool.records) THEN <<>>
    ELSE (IF pool.records[i].payload # <<>>
          THEN <<Handle(i - 1, pool.records[i].generation)>>
          ELSE <<>>) \o PairIterFrom(pool, i + 1)

\* pair_iter: the live handles in index order.
PairIter(pool) == PairIterFrom(pool, 1)

Range(q) == {q[i] : i \in DOMAIN q}
LiveHandles(pool) == Range(PairIter(pool))

---------------------------------------------------------------------------
\* Entities and messages.

Player(ps, input) == [ps |-> ps, input |-> input]
PlayerNew == Player("Observing", NoInput)
Cycle(player_handle) == [player_handle |-> player_handle]
RemoteClient(connection, player_handle) ==
    [connection |-> connection, player_handle |-> player_handle]

\* The messages the peers of the model write.  Chat is only logged by the
\* server (HandleMessage), so the peers here do not write it.
ClientMessages ==
    [type : {"Input"}, input : Inputs] \cup [type : {"Join", "Observe"}]

AddPlayer(player_index) ==
    [type |-> "AddPlayer", name |-> "Player", player_index |-> player_index]
PlayerCycle(player_index, cycle_index) ==
    [player_index |-> player_index, cycle_index |-> cycle_index]
SpawnCycle(player_cycle) == [type |-> "SpawnCycle", player_cycle |-> player_cycle]
JoinMsg(player_index) == [type |-> "Join", player_index |-> player_index]
ObserveMsg(player_index) == [type |-> "Observe", player_index |-> player_index]
RemovePlayer(player_index) == [type |-> "RemovePlayer", player_index |-> player_index]
InitData(player_indices, local_player_index, player_cycles) ==
    [type |-> "InitData", player_indices |-> player_indices,
     local_player_index |-> local_player_index,
     player_cycles |-> player_cycles, player_projectiles |-> <<>>]
Update(cycle_physics, texts, shapes) ==
    [type |-> "Update", update_physics |-> cycle_physics,
     debug_texts |-> texts, debug_shapes |-> shapes]

SendDestAll == [dest |-> "All"]
SendDestOne(handle) == [dest |-> "One", handle |-> handle]

---------------------------------------------------------------------------
\* The server state a handler works on, and the events it records.
\*   clients, players, cycles : the three pools
\*   conns    : per connection, what the peer has written and whether it closed
\*   log      : the sends, receives, disconnects and frees of this handler
\*   panicked : the process has ended

VARIABLES pc, game_time, game_time_target, frame_number,
          clients, players, cycles, conns, accepted, written, log, trace

\* DEBUG_TEXTS and DEBUG_SHAPES (debug::details), the buffers the dbg_*
\* macros push to.  An item is [id, frame, pc]: a serial number and where in
\* the run it was emitted.  `emitted` counts the items, `delivered` lists
\* the items of every Update built so far with the frame of that Update, and
\* `freed` is the set of client handles disconnect was called with while live.
\* `roster` is, for each client in the registry, the set of player indices a
\* peer gets from the messages sent to it so far (see RosterAfter).
\* `inited` is the set of client handles an InitData was sent to.
VARIABLES debug_texts, debug_shapes, emitted, delivered, freed, roster, inited

\* FyroxConsole (src/src/client/console.rs): its three flags, the lines
\* printed to its history, the visibility and focus it last asked the UI
\* for, the calls made so far and what the last close returned.
VARIABLES is_open, first_open, was_mouse_grabbed, console_history,
          layout_visible, prompt_focused, console_calls, close_returned

\* A run of soft_assert! statements (src/src/debug.rs): the statement about
\* to run, how often the condition was evaluated, the lines logged, the value
\* of the last macro call ("unit", or "panic" if it did not return) and the
\* statements run so far.
VARIABLES sa_pc, execution_count, sa_logged, sa_value, sa_calls

serverVars == <<pc, game_time, game_time_target, frame_number,
                clients, players, cycles, conns, accepted, written, log, trace,
                debug_texts, debug_shapes, emitted, delivered, freed, roster, inited>>
consoleVars == <<is_open, first_open, was_mouse_grabbed, console_history,
                 layout_visible, prompt_focused, console_calls, close_returned>>
assertVars == <<sa_pc, execution_count, sa_logged, sa_value, sa_calls>>

vars == <<serverVars, consoleVars, assertVars>>

Logged(s, ev) == [s EXCEPT !.log = Append(@, ev)]
Panic(s) == [s EXCEPT !.panicked = TRUE]

SendEv(h, msg, ok) == [e |-> "send", h |-> h, msg |-> msg, ok |-> ok]
DisconnectEv(h, live) == [e |-> "disconnect", h |-> h, live |-> live]
FreeEv(h, player_handle) == [e |-> "free", h |-> h, player_handle |-> player_handle]
ReceiveEv(h, player_handle, messages, closed) ==
    [e |-> "receive", h |-> h, player_handle |-> player_handle,
     messages |-> messages, closed |-> closed]
SpawnEv(h, player_handle) == [e |-> "spawn", h |-> h, player_handle |-> player_handle]
BroadcastEv(msg) == [e |-> "broadcast", msg |-> msg]
\* network_send returns: its `disconnected` list.
ReturnEv(failed) == [e |-> "return", failed |-> failed]
\* The messages of one client's batch have been handled: its player then.
HandledEv(h, player) == [e |-> "handled", h |-> h, player |-> player]


---------------------------------------------------------------------------
\* GameState: the players and cycles pools.

RECURSIVE FreeCyclesOf(_, _, _)
FreeCyclesOf(pool, hs, player_handle) ==
    IF hs = <<>> THEN pool
    ELSE FreeCyclesOf(IF Borrow(pool, Head(hs)).player_handle = player_handle
                      THEN PoolFree(pool, Head(hs)) ELSE pool,
                      Tail(hs), player_handle)

\* GameState::free_player: release the player and remove its cycle.
free_player(s, player_handle) ==
    IF ~IsValidHandle(s.players, player_handle) THEN Panic(s)
    ELSE [s EXCEPT !.players = PoolFree(@, player_handle),
                   !.cycles = FreeCyclesOf(@, PairIter(@), player_handle)]

\* GameState::spawn_cycle: a new cycle that refers to the player.
spawn_cycle(s, player_handle) ==
    [s EXCEPT !.cycles = PoolSpawn(@, Cycle(player_handle))]

---------------------------------------------------------------------------
\* network_send and disconnect (mutually recursive).

RECURSIVE network_send(_, _, _), disconnect(_, _), SendLoop(_, _, _, _),
          DisconnectLoop(_, _)

\* Mutant of SendLoop: the first failed send ends the loop.
RECURSIVE SendLoop_StopAtFailure(_, _, _, _)
SendLoop_StopAtFailure(s, hs, message, disconnected) ==
    IF hs = <<>> THEN {[s |-> s, disconnected |-> disconnected]}
    ELSE {[s |-> Logged(s, SendEv(Head(hs), message, FALSE)),
           disconnected |-> Append(disconnected, Head(hs))]}
         \cup SendLoop_StopAtFailure(Logged(s, SendEv(Head(hs), message, TRUE)),
                                     Tail(hs), message, disconnected)

\* Mutant of SendLoop: a failed send is tried once more before the client is
\* given up.
RECURSIVE SendLoop_Retry(_, _, _, _)
SendLoop_Retry(s, hs, message, disconnected) ==
    IF hs = <<>> THEN {[s |-> s, disconnected |-> disconnected]}
    ELSE SendLoop_Retry(Logged(s, SendEv(Head(hs), message, TRUE)),
                        Tail(hs), message, disconnected)
         \cup UNION {
            SendLoop_Retry(Logged(Logged(s, SendEv(Head(hs), message, FALSE)),
                                  SendEv(Head(hs), message, ok)),
                           Tail(hs), message,
                           IF ok THEN disconnected ELSE Append(disconnected, Head(hs)))
            : ok \in BOOLEAN }

\* Mutant of SendLoop: the recipients are visited in no fixed order.
RECURSIVE SendLoop_AnyOrder(_, _, _, _)
SendLoop_AnyOrder(s, hs, message, disconnected) ==
    IF hs = <<>> THEN {[s |-> s, disconnected |-> disconnected]}
    ELSE UNION {
        SendLoop_AnyOrder(Logged(s, SendEv(hs[k], message, ok)),
                          SubSeq(hs, 1, k - 1) \o SubSeq(hs, k + 1, Len(hs)), message,
                          IF ok THEN disconnected ELSE Append(disconnected, hs[k]))
        : k \in DOMAIN hs, ok \in BOOLEAN }

\* The loop over the recipients: each send succeeds or fails; a failure
\* pushes the handle on `disconnected` and the loop goes on.
SendLoop(s, hs, message, disconnected) ==
    IF hs = <<>> THEN {[s |-> s, disconnected |-> disconnected]}
    ELSE UNION {
        SendLoop(Logged(s, SendEv(Head(hs), message, ok)), Tail(hs), message,
                 IF ok THEN disconnected ELSE Append(disconnected, Head(hs)))
        : ok \in BOOLEAN }

\* for client_handle in disconnected { self.disconnect(engine, client_handle) }
DisconnectLoop(S, hs) ==
    IF hs = <<>> THEN S
    ELSE DisconnectLoop(UNION {disconnect(s, Head(hs)) : s \in S}, Tail(hs))

network_send(s, message, dest) ==
    IF s.panicked THEN {s}
    ELSE IF dest.dest = "One" /\ ~IsValidHandle(s.clients, dest.handle)
    THEN {Panic(s)}
    ELSE LET recipients == IF dest.dest = "One" THEN <<dest.handle>>
                           ELSE PairIter(s.clients)
             s0 == IF dest.dest = "One" THEN s ELSE Logged(s, BroadcastEv(message))
         IN  UNION {{IF s2.panicked THEN s2
                     ELSE Logged(s2, ReturnEv(r.disconnected))
                     : s2 \in DisconnectLoop({r.s}, r.disconnected)}
                    : r \in SendLoop(s0, recipients, message, <<>>)}

\* Mutant of disconnect: the client is freed and its player is kept.
disconnect_KeepPlayer(s, client_handle) ==
    IF s.panicked THEN {s}
    ELSE IF ~IsValidHandle(s.clients, client_handle)
    THEN {Panic(Logged(s, DisconnectEv(client_handle, FALSE)))}
    ELSE LET client == Borrow(s.clients, client_handle)
             s1 == Logged(s, DisconnectEv(client_handle, TRUE))
             s2 == [s1 EXCEPT !.clients = PoolFree(@, client_handle),
                              !.conns[client.connection] =
                                  [inbox |-> <<>>, closed |-> FALSE, open |-> FALSE]]
             s3 == Logged(s2, FreeEv(client_handle, client.player_handle))
         IN  network_send(s3, RemovePlayer(client.player_handle.index), SendDestAll)

\* Mutant of disconnect: the player is freed and the client stays in the
\* registry.
disconnect_KeepClient(s, client_handle) ==
    IF s.panicked THEN {s}
    ELSE IF ~IsValidHandle(s.clients, client_handle)
    THEN {Panic(Logged(s, DisconnectEv(client_handle, FALSE)))}
    ELSE LET client == Borrow(s.clients, client_handle)
             s1 == Logged(s, DisconnectEv(client_handle, TRUE))
             s3 == free_player(s1, client.player_handle)
         IN  network_send(s3, RemovePlayer(client.player_handle.index), SendDestAll)

\* Mutant of disconnect: the client and its player are freed and no
\* RemovePlayer is broadcast.
disconnect_Silent(s, client_handle) ==
    IF s.panicked THEN {s}
    ELSE IF ~IsValidHandle(s.clients, client_handle)
    THEN {Panic(Logged(s, DisconnectEv(client_handle, FALSE)))}
    ELSE LET client == Borrow(s.clients, client_handle)
             s1 == Logged(s, DisconnectEv(client_handle, TRUE))
             s2 == [s1 EXCEPT !.clients = PoolFree(@, client_handle),
                              !.conns[client.connection] =
                                  [inbox |-> <<>>, closed |-> FALSE, open |-> FALSE]]
         IN  {free_player(Logged(s2, FreeEv(client_handle, client.player_handle)),
                          client.player_handle)}

disconnect(s, client_handle) ==
    IF s.panicked THEN {s}
    ELSE IF ~IsValidHandle(s.clients, client_handle)
    THEN {Panic(Logged(s, DisconnectEv(client_handle, FALSE)))}
    ELSE LET client == Borrow(s.clients, client_handle)
             s1 == Logged(s, DisconnectEv(client_handle, TRUE))
             s2 == [s1 EXCEPT !.clients = PoolFree(@, client_handle),
                              !.conns[client.connection] =
                                  [inbox |-> <<>>, closed |-> FALSE, open |-> FALSE]]
             s3 == free_player(Logged(s2, FreeEv(client_handle, client.player_handle)),
                               client.player_handle)
         IN  network_send(s3, RemovePlayer(client.player_handle.index), SendDestAll)

---------------------------------------------------------------------------
\* send_init

RECURSIVE PlayerCycles(_, _)
PlayerCycles(pool, hs) ==
    IF hs = <<>> THEN <<>>
    ELSE <<PlayerCycle(Borrow(pool, Head(hs)).player_handle.index, Head(hs).index)>>
         \o PlayerCycles(pool, Tail(hs))

Indices(hs) == [i \in DOMAIN hs |-> hs[i].index]

\* Mutant of send_init: the roster leaves out the new client's own player.
send_init_OthersOnly(s, client_handle) ==
    IF s.panicked THEN {s}
    ELSE IF ~IsValidHandle(s.clients, client_handle) THEN {Panic(s)}
    ELSE LET local_player_index == Borrow(s.clients, client_handle).player_handle.index
             player_indices == SelectSeq(Indices(PairIter(s.players)),
                                         LAMBDA i : i # local_player_index)
             player_cycles == PlayerCycles(s.cycles, PairIter(s.cycles))
         IN  network_send(s, InitData(player_indices, local_player_index, player_cycles),
                          SendDestOne(client_handle))

send_init(s, client_handle) ==
    IF s.panicked THEN {s}
    ELSE IF ~IsValidHandle(s.clients, client_handle) THEN {Panic(s)}
    ELSE LET player_indices == Indices(PairIter(s.players))
             local_player_index == Borrow(s.clients, client_handle).player_handle.index
             player_cycles == PlayerCycles(s.cycles, PairIter(s.cycles))
         IN  network_send(s, InitData(player_indices, local_player_index, player_cycles),
                          SendDestOne(client_handle))

---------------------------------------------------------------------------
\* accept_new_connections: one turn of its loop for Ok(conn).

\* Mutant of accept_connection: the client is created before AddPlayer is
\* broadcast, so the new client is sent its own AddPlayer.
accept_connection_ClientFirst(s, conn) ==
    LET player_handle == SpawnHandle(s.players)
        client_handle == SpawnHandle(s.clients)
        s1 == [s EXCEPT !.players = PoolSpawn(@, PlayerNew),
                        !.conns[conn].open = TRUE,
                        !.clients = PoolSpawn(@, RemoteClient(conn, player_handle))]
        SpawnCycleAndTell(s4) ==
            IF s4.panicked THEN {s4}
            ELSE LET cycle_handle == SpawnHandle(s4.cycles)
                     player_cycle == PlayerCycle(player_handle.index, cycle_handle.index)
                 IN  network_send(spawn_cycle(s4, player_handle),
                                  SpawnCycle(player_cycle), SendDestAll)
        Init2(s2) ==
            IF s2.panicked \/ ~IsValidHandle(s2.clients, client_handle) THEN {s2}
            ELSE UNION {SpawnCycleAndTell(s4) : s4 \in send_init(s2, client_handle)}
    IN  UNION {Init2(s2)
               : s2 \in network_send(Logged(s1, SpawnEv(client_handle, player_handle)),
                                     AddPlayer(player_handle.index), SendDestAll)}

\* Mutant of accept_connection: the cycle is spawned before send_init, so
\* the InitData already lists the new client's own cycle.
accept_connection_CycleFirst(s, conn) ==
    LET player_handle == SpawnHandle(s.players)
        s1 == [s EXCEPT !.players = PoolSpawn(@, PlayerNew),
                        !.conns[conn].open = TRUE]
        Tell(s4, player_cycle) ==
            IF s4.panicked THEN {s4}
            ELSE network_send(s4, SpawnCycle(player_cycle), SendDestAll)
        CreateClient(s2) ==
            IF s2.panicked THEN {s2}
            ELSE LET client_handle == SpawnHandle(s2.clients)
                     cycle_handle == SpawnHandle(s2.cycles)
                     player_cycle == PlayerCycle(player_handle.index, cycle_handle.index)
                     s3 == [spawn_cycle(s2, player_handle) EXCEPT !.clients =
                                PoolSpawn(@, RemoteClient(conn, player_handle))]
                 IN  UNION {Tell(s4, player_cycle)
                            : s4 \in send_init(Logged(s3, SpawnEv(client_handle, player_handle)),
                                               client_handle)}
    IN  UNION {CreateClient(s2)
               : s2 \in network_send(s1, AddPlayer(player_handle.index), SendDestAll)}

\* Mutant of accept_connection: the cycle is spawned and SpawnCycle is
\* broadcast before send_init, so the new client is sent SpawnCycle first.
accept_connection_InitLast(s, conn) ==
    LET player_handle == SpawnHandle(s.players)
        s1 == [s EXCEPT !.players = PoolSpawn(@, PlayerNew),
                        !.conns[conn].open = TRUE]
        CreateClient(s2) ==
            IF s2.panicked THEN {s2}
            ELSE LET client_handle == SpawnHandle(s2.clients)
                     cycle_handle == SpawnHandle(s2.cycles)
                     player_cycle == PlayerCycle(player_handle.index, cycle_handle.index)
                     s3 == [spawn_cycle(s2, player_handle) EXCEPT !.clients =
                                PoolSpawn(@, RemoteClient(conn, player_handle))]
                 IN  UNION {send_init(s4, client_handle)
                            : s4 \in network_send(Logged(s3, SpawnEv(client_handle, player_handle)),
                                                  SpawnCycle(player_cycle), SendDestAll)}
    IN  UNION {CreateClient(s2)
               : s2 \in network_send(s1, AddPlayer(player_handle.index), SendDestAll)}

accept_connection(s, conn) ==
    LET player_handle == SpawnHandle(s.players)
        s1 == [s EXCEPT !.players = PoolSpawn(@, PlayerNew),
                        !.conns[conn].open = TRUE]
        SpawnCycleAndTell(s4) ==
            IF s4.panicked THEN {s4}
            ELSE LET cycle_handle == SpawnHandle(s4.cycles)
                     player_cycle == PlayerCycle(player_handle.index, cycle_handle.index)
                 IN  network_send(spawn_cycle(s4, player_handle),
                                  SpawnCycle(player_cycle), SendDestAll)
        CreateClient(s2) ==
            IF s2.panicked THEN {s2}
            ELSE LET client_handle == SpawnHandle(s2.clients)
                     s3 == [s2 EXCEPT !.clients =
                                PoolSpawn(@, RemoteClient(conn, player_handle))]
                 IN  UNION {SpawnCycleAndTell(s4)
                            : s4 \in send_init(Logged(s3, SpawnEv(client_handle, player_handle)),
                                               client_handle)}
    IN  UNION {CreateClient(s2)
               : s2 \in network_send(s1, AddPlayer(player_handle.index), SendDestAll)}

---------------------------------------------------------------------------
\* sys_receive

\* The match on one client message.  r is [s, disconnected, messages_to_all].
HandleMessage(r, client, message) ==
    IF message.type = "Chat" THEN r
    ELSE IF ~IsValidHandle(r.s.players, client.player_handle)
    THEN [r EXCEPT !.s = Panic(@)]
    ELSE LET player == Borrow(r.s.players, client.player_handle)
             player_index == client.player_handle.index
         IN  CASE message.type = "Input" ->
                    [r EXCEPT !.s.players = PoolSet(@, client.player_handle,
                                                    [player EXCEPT !.input = message.input])]
               [] message.type = "Join" ->
                    [r EXCEPT !.s.players = PoolSet(@, client.player_handle,
                                                    [player EXCEPT !.ps = "Playing"]),
                              !.messages_to_all = Append(@, JoinMsg(player_index))]
               [] message.type = "Observe" ->
                    [r EXCEPT !.s.players = PoolSet(@, client.player_handle,
                                                    [player EXCEPT !.ps = "Observing"]),
                              !.messages_to_all = Append(@, ObserveMsg(player_index))]

RECURSIVE HandleMessages(_, _, _)
HandleMessages(r, client, messages) ==
    IF messages = <<>> \/ r.s.panicked THEN r
    ELSE HandleMessages(HandleMessage(r, client, Head(messages)), client, Tail(messages))

\* The loop over the clients: receive_cm hands over what the peer wrote and
\* whether the stream is closed.
RECURSIVE ReceiveLoop(_, _)
ReceiveLoop(r, hs) ==
    IF hs = <<>> \/ r.s.panicked THEN r
    ELSE LET client_handle == Head(hs)
             client == Borrow(r.s.clients, client_handle)
             messages == r.s.conns[client.connection].inbox
             closed == r.s.conns[client.connection].closed
             s1 == Logged([r.s EXCEPT !.conns[client.connection].inbox = <<>>],
                          ReceiveEv(client_handle, client.player_handle, messages, closed))
             r1 == HandleMessages([r EXCEPT !.s = s1], client, messages)
             r2 == IF r1.s.panicked THEN r1
                   ELSE [r1 EXCEPT !.s = Logged(@, HandledEv(client_handle,
                                          Borrow(r1.s.players, client.player_handle)))]
         IN  ReceiveLoop([r2 EXCEPT !.disconnected =
                              IF closed THEN Append(@, client_handle) ELSE @],
                         Tail(hs))

\* for message in messages_to_all { self.network_send(engine, message, All) }
RECURSIVE BroadcastLoop(_, _)
BroadcastLoop(S, messages) ==
    IF messages = <<>> THEN S
    ELSE BroadcastLoop(UNION {network_send(s, Head(messages), SendDestAll) : s \in S},
                       Tail(messages))

sys_receive(s) ==
    LET r == ReceiveLoop([s |-> s, disconnected |-> <<>>, messages_to_all |-> <<>>],
                         PairIter(s.clients))
    IN  BroadcastLoop(DisconnectLoop({r.s}, r.disconnected), r.messages_to_all)

---------------------------------------------------------------------------
\* sys_send_update

CyclePhysics(cycle_index) == [cycle_index |-> cycle_index]

\* Mutant of sys_send_update: the debug buffers are copied and not cleared.
sys_send_update_NoClear(s) ==
    LET cycle_physics == [i \in DOMAIN PairIter(s.cycles) |->
                              CyclePhysics(PairIter(s.cycles)[i].index)]
    IN  network_send(s, Update(cycle_physics, s.debug_texts, s.debug_shapes), SendDestAll)

\* The Update takes a copy of both debug buffers and the buffers are cleared
\* before anything is sent.
sys_send_update(s) ==
    LET cycle_physics == [i \in DOMAIN PairIter(s.cycles) |->
                              CyclePhysics(PairIter(s.cycles)[i].index)]
        message == Update(cycle_physics, s.debug_texts, s.debug_shapes)
        s1 == [s EXCEPT !.debug_texts = <<>>, !.debug_shapes = <<>>]
    IN  network_send(s1, message, SendDestAll)

---------------------------------------------------------------------------
\* The state machine.

ConnNew == [inbox |-> <<>>, closed |-> FALSE, open |-> FALSE]

Init ==
    /\ pc = "idle"
    /\ game_time = 0
    /\ game_time_target = 0
    /\ frame_number = 0
    /\ clients = PoolNew
    /\ players = PoolNew
    /\ cycles = PoolNew
    /\ conns = [c \in ConnIds |-> ConnNew]
    /\ accepted = 0
    /\ written = 0
    /\ log = <<>>
    /\ trace = <<>>
    /\ debug_texts = <<>>
    /\ debug_shapes = <<>>
    /\ emitted = 0
    /\ delivered = <<>>
    /\ freed = {}
    /\ roster = <<>>
    /\ inited = {}
    /\ is_open = FALSE
    /\ first_open = TRUE
    /\ was_mouse_grabbed = FALSE
    /\ console_history = <<>>
    /\ layout_visible = FALSE
    /\ prompt_focused = FALSE
    /\ console_calls = <<>>
    /\ close_returned = FALSE
    /\ sa_pc = 1
    /\ execution_count = 0
    /\ sa_logged = <<>>
    /\ sa_value = "unit"
    /\ sa_calls = <<>>

\* The handler's view of the variables, and the variables after it.
ServerState ==
    [clients |-> clients, players |-> players, cycles |-> cycles, conns |-> conns,
     debug_texts |-> debug_texts, debug_shapes |-> debug_shapes,
     log |-> <<>>, panicked |-> FALSE]

\* Mutant of NextStep: the simulation step runs before sys_receive.
NextStep_SimulateFirst(step) ==
    CASE step = "accept_new_connections" -> "simulate"
      [] step = "simulate" -> "sys_receive"
      [] step = "sys_receive" -> "sys_send_update"
      [] step = "sys_send_update" -> "loop"

\* The order of the steps in the body of the loop of update.
NextStep(step) ==
    CASE step = "accept_new_connections" -> "sys_receive"
      [] step = "sys_receive" -> "simulate"
      [] step = "simulate" -> "sys_send_update"
      [] step = "sys_send_update" -> "loop"

\* The debug items of the Update messages built in the log l, each with the
\* frame the Update belongs to.
RECURSIVE DeliveredBy(_, _)
DeliveredBy(l, frame) ==
    IF l = <<>> THEN <<>>
    ELSE (IF Head(l).e = "broadcast" /\ Head(l).msg.type = "Update"
          THEN [i \in DOMAIN (Head(l).msg.debug_texts \o Head(l).msg.debug_shapes) |->
                    [item |-> (Head(l).msg.debug_texts \o Head(l).msg.debug_shapes)[i],
                     frame |-> frame]]
          ELSE <<>>) \o DeliveredBy(Tail(l), frame)

\* The roster a peer keeps: InitData sets it, AddPlayer adds an index and
\* RemovePlayer takes one out.  r maps each client of the registry to the
\* roster its peer has after the messages that reached it; the entry of a
\* client goes when the client is freed.
RosterOf(r, h) == IF h \in DOMAIN r THEN r[h] ELSE {}

RosterSet(r, h, x) == [c \in DOMAIN r \cup {h} |-> IF c = h THEN x ELSE r[c]]

\* The events of a log that change a roster.
RosterEvents(l) ==
    SelectSeq(l, LAMBDA ev :
        \/ ev.e = "free"
        \/ ev.e = "send" /\ ev.ok
               /\ ev.msg.type \in {"InitData", "AddPlayer", "RemovePlayer"})

RECURSIVE RosterAfter(_, _)
RosterAfter(r, l) ==
    IF l = <<>> THEN r
    ELSE LET ev == Head(l)
             r1 == CASE ev.e = "free" -> [c \in DOMAIN r \ {ev.h} |-> r[c]]
                     [] ev.e = "send" /\ ev.ok /\ ev.msg.type = "InitData" ->
                            RosterSet(r, ev.h, Range(ev.msg.player_indices))
                     [] ev.e = "send" /\ ev.ok /\ ev.msg.type = "AddPlayer" ->
                            RosterSet(r, ev.h, RosterOf(r, ev.h) \cup {ev.msg.player_index})
                     [] ev.e = "send" /\ ev.ok /\ ev.msg.type = "RemovePlayer" ->
                            RosterSet(r, ev.h, RosterOf(r, ev.h) \ {ev.msg.player_index})
                     [] OTHER -> r
         IN  RosterAfter(r1, Tail(l))

Commit(s, step, next) ==
    /\ clients' = s.clients
    /\ players' = s.players
    /\ cycles' = s.cycles
    /\ conns' = s.conns
    /\ debug_texts' = s.debug_texts
    /\ debug_shapes' = s.debug_shapes
    /\ delivered' = delivered \o DeliveredBy(SelectSeq(s.log, LAMBDA ev :
                                                ev.e = "broadcast" /\ ev.msg.type = "Update"),
                                            frame_number)
    /\ freed' = freed \cup {s.log[i].h : i \in {j \in DOMAIN s.log :
                                                  s.log[j].e = "disconnect" /\ s.log[j].live}}
    /\ roster' = RosterAfter(roster, RosterEvents(s.log))
    /\ inited' = inited \cup {s.log[i].h : i \in {j \in DOMAIN s.log :
                                  s.log[j].e = "send" /\ s.log[j].msg.type = "InitData"}}
    /\ log' = s.log
    /\ trace' = IF step = "" THEN trace ELSE Append(trace, step)
    /\ pc' = IF s.panicked THEN "panicked" ELSE next

\* update(engine, game_time_target): the driver calls it with the time to reach.
update ==
    /\ pc = "idle"
    /\ \E target \in game_time_target .. MaxTime : game_time_target' = target
    /\ pc' = "loop"
    /\ UNCHANGED <<game_time, frame_number, clients, players, cycles, conns,
                   accepted, written, log, trace>>
    /\ UNCHANGED <<debug_texts, debug_shapes, emitted, delivered, freed, roster, inited>>
    /\ UNCHANGED <<consoleVars, assertVars>>

\* Mutant of LoopIterate: the loop also runs when game_time + dt reaches the
\* target.
LoopIterate_Inclusive ==
    /\ pc = "loop"
    /\ game_time + 1 <= game_time_target
    /\ game_time' = game_time + 1
    /\ frame_number' = frame_number + 1
    /\ pc' = "accept_new_connections"
    /\ trace' = <<"accept_new_connections">>
    /\ log' = <<>>
    /\ UNCHANGED <<game_time_target, clients, players, cycles, conns, accepted, written>>
    /\ UNCHANGED <<debug_texts, debug_shapes, emitted, delivered, freed, roster, inited>>
    /\ UNCHANGED <<consoleVars, assertVars>>

\* while self.gs.game_time + dt < game_time_target
LoopIterate ==
    /\ pc = "loop"
    /\ game_time + 1 < game_time_target
    /\ game_time' = game_time + 1
    /\ frame_number' = frame_number + 1
    /\ pc' = "accept_new_connections"
    /\ trace' = <<"accept_new_connections">>
    /\ log' = <<>>
    /\ UNCHANGED <<game_time_target, clients, players, cycles, conns, accepted, written>>
    /\ UNCHANGED <<debug_texts, debug_shapes, emitted, delivered, freed, roster, inited>>
    /\ UNCHANGED <<consoleVars, assertVars>>

LoopExit ==
    /\ pc = "loop"
    /\ ~(game_time + 1 < game_time_target)
    /\ pc' = "idle"
    /\ UNCHANGED <<game_time, game_time_target, frame_number, clients, players,
                   cycles, conns, accepted, written, log, trace>>
    /\ UNCHANGED <<debug_texts, debug_shapes, emitted, delivered, freed, roster, inited>>
    /\ UNCHANGED <<consoleVars, assertVars>>

\* listener.accept() returns Ok(conn)
AcceptOk ==
    /\ pc = "accept_new_connections"
    /\ accepted < MaxConns
    /\ accepted' = accepted + 1
    /\ \E s \in accept_connection(ServerState, accepted + 1) :
           Commit(s, "", "accept_new_connections")
    /\ UNCHANGED <<game_time, game_time_target, frame_number, written, emitted>>
    /\ UNCHANGED <<consoleVars, assertVars>>

\* listener.accept() returns Err(WouldBlock)
AcceptWouldBlock ==
    /\ pc = "accept_new_connections"
    /\ pc' = NextStep("accept_new_connections")
    /\ trace' = Append(trace, "would_block")
    /\ log' = <<>>
    /\ UNCHANGED <<game_time, game_time_target, frame_number, clients, players,
                   cycles, conns, accepted, written>>
    /\ UNCHANGED <<debug_texts, debug_shapes, emitted, delivered, freed, roster, inited>>
    /\ UNCHANGED <<consoleVars, assertVars>>

\* Mutant of AcceptError: the error is skipped and the loop asks again.
AcceptError_Skip ==
    /\ pc = "accept_new_connections"
    /\ pc' = "accept_new_connections"
    /\ trace' = Append(trace, "accept_error")
    /\ log' = <<>>
    /\ UNCHANGED <<game_time, game_time_target, frame_number, clients, players,
                   cycles, conns, accepted, written>>
    /\ UNCHANGED <<debug_texts, debug_shapes, emitted, delivered, freed, roster, inited>>
    /\ UNCHANGED <<consoleVars, assertVars>>

\* listener.accept() returns any other error
AcceptError ==
    /\ pc = "accept_new_connections"
    /\ pc' = "panicked"
    /\ trace' = Append(trace, "accept_error")
    /\ log' = <<>>
    /\ UNCHANGED <<game_time, game_time_target, frame_number, clients, players,
                   cycles, conns, accepted, written>>
    /\ UNCHANGED <<debug_texts, debug_shapes, emitted, delivered, freed, roster, inited>>
    /\ UNCHANGED <<consoleVars, assertVars>>

SysReceive ==
    /\ pc = "sys_receive"
    /\ \E s \in sys_receive(ServerState) : Commit(s, "sys_receive", NextStep("sys_receive"))
    /\ UNCHANGED <<game_time, game_time_target, frame_number, accepted, written, emitted>>
    /\ UNCHANGED <<consoleVars, assertVars>>

\* gs.tick_before_physics(engine, dt); engine.update(dt, ..)
Simulate ==
    /\ pc = "simulate"
    /\ pc' = NextStep("simulate")
    /\ trace' = Append(trace, "simulate")
    /\ log' = <<>>
    /\ UNCHANGED <<game_time, game_time_target, frame_number, clients, players,
                   cycles, conns, accepted, written>>
    /\ UNCHANGED <<debug_texts, debug_shapes, emitted, delivered, freed, roster, inited>>
    /\ UNCHANGED <<consoleVars, assertVars>>

SysSendUpdate ==
    /\ pc = "sys_send_update"
    /\ \E s \in sys_send_update(ServerState) :
           Commit(s, "sys_send_update", NextStep("sys_send_update"))
    /\ UNCHANGED <<game_time, game_time_target, frame_number, accepted, written, emitted>>
    /\ UNCHANGED <<consoleVars, assertVars>>

\* A debug item: its serial number, the frame it was emitted in and whether
\* that was after the sys_send_update of the frame.
DebugItem(id, frame, after) == [id |-> id, frame |-> frame, after |-> after]

\* Where update emits debug items: debug_engine_updates runs right before
\* sys_send_update and right after it.
DebugPoint ==
    \/ pc = "sys_send_update"
    \/ pc = "loop" /\ frame_number > 0

\* dbg_textf!: a line is pushed to DEBUG_TEXTS.
DbgText ==
    /\ DebugPoint
    /\ emitted < MaxDebug
    /\ emitted' = emitted + 1
    /\ debug_texts' = Append(debug_texts, DebugItem(emitted + 1, frame_number, pc = "loop"))
    /\ UNCHANGED <<pc, game_time, game_time_target, frame_number, clients, players,
                   cycles, conns, accepted, written, log, trace>>
    /\ UNCHANGED <<debug_shapes, delivered, freed, roster, inited>>
    /\ UNCHANGED <<consoleVars, assertVars>>

\* dbg_line!, dbg_arrow!, dbg_cross!: a shape is pushed to DEBUG_SHAPES.
DbgShape ==
    /\ DebugPoint
    /\ emitted < MaxDebug
    /\ emitted' = emitted + 1
    /\ debug_shapes' = Append(debug_shapes, DebugItem(emitted + 1, frame_number, pc = "loop"))
    /\ UNCHANGED <<pc, game_time, game_time_target, frame_number, clients, players,
                   cycles, conns, accepted, written, log, trace>>
    /\ UNCHANGED <<debug_texts, delivered, freed, roster, inited>>
    /\ UNCHANGED <<consoleVars, assertVars>>

\* A peer writes a message to its stream, or closes it.  The server looks at
\* a stream only in receive_cm, so what a peer did since the last sys_receive
\* is placed right before the next one.
ClientWrite ==
    /\ pc = "sys_receive"
    /\ written < MaxMsgs
    /\ written' = written + 1
    /\ \E c \in ConnIds, m \in ClientMessages :
           /\ conns[c].open /\ ~conns[c].closed
           /\ conns' = [conns EXCEPT ![c].inbox = Append(@, m)]
    /\ UNCHANGED <<pc, game_time, game_time_target, frame_number, clients, players,
                   cycles, accepted, log, trace>>
    /\ UNCHANGED <<debug_texts, debug_shapes, emitted, delivered, freed, roster, inited>>
    /\ UNCHANGED <<consoleVars, assertVars>>

ClientClose ==
    /\ pc = "sys_receive"
    /\ \E c \in ConnIds :
           /\ conns[c].open /\ ~conns[c].closed
           /\ conns' = [conns EXCEPT ![c].closed = TRUE]
    /\ UNCHANGED <<pc, game_time, game_time_target, frame_number, clients, players,
                   cycles, accepted, written, log, trace>>
    /\ UNCHANGED <<debug_texts, debug_shapes, emitted, delivered, freed, roster, inited>>
    /\ UNCHANGED <<consoleVars, assertVars>>

Next ==
    \/ update
    \/ LoopIterate
    \/ LoopExit
    \/ AcceptOk
    \/ AcceptWouldBlock
    \/ AcceptError
    \/ SysReceive
    \/ Simulate
    \/ SysSendUpdate
    \/ ClientWrite
    \/ ClientClose

Spec == Init /\ [][Next]_vars

---------------------------------------------------------------------------
\* FyroxConsole::open and FyroxConsole::close.

FyroxConsole ==
    [is_open |-> is_open, first_open |-> first_open,
     was_mouse_grabbed |-> was_mouse_grabbed, history |-> console_history,
     visible |-> layout_visible, focused |-> prompt_focused]

\* Mutant of open: the grab state is stored on the first opening only.
open_GrabOnFirstOpen(c, grabbed) ==
    LET c1 == [c EXCEPT !.is_open = TRUE, !.visible = TRUE, !.focused = TRUE]
    IN  IF c1.first_open
        THEN [c1 EXCEPT !.was_mouse_grabbed = grabbed,
                        !.first_open = FALSE,
                        !.history = Append(@, "Type 'help' or '?' for basic info")]
        ELSE c1

open(c, grabbed) ==
    LET c1 == [c EXCEPT !.is_open = TRUE, !.was_mouse_grabbed = grabbed,
                        !.visible = TRUE, !.focused = TRUE]
    IN  IF c1.first_open
        THEN [c1 EXCEPT !.first_open = FALSE,
                        !.history = Append(@, "Type 'help' or '?' for basic info")]
        ELSE c1

\* close: the console after it, and the value it returns.
close(c) ==
    [console |-> [c EXCEPT !.visible = FALSE, !.focused = FALSE, !.is_open = FALSE],
     returned |-> c.was_mouse_grabbed]

SetConsole(c) ==
    /\ is_open' = c.is_open
    /\ first_open' = c.first_open
    /\ was_mouse_grabbed' = c.was_mouse_grabbed
    /\ console_history' = c.history
    /\ layout_visible' = c.visible
    /\ prompt_focused' = c.focused

ConsoleOpen ==
    /\ Len(console_calls) < MaxCalls
    /\ \E grabbed \in BOOLEAN :
           /\ SetConsole(open(FyroxConsole, grabbed))
           /\ console_calls' = Append(console_calls, [op |-> "open", grabbed |-> grabbed])
    /\ UNCHANGED <<close_returned, serverVars, assertVars>>

ConsoleClose ==
    /\ Len(console_calls) < MaxCalls
    /\ SetConsole(close(FyroxConsole).console)
    /\ close_returned' = close(FyroxConsole).returned
    /\ console_calls' = Append(console_calls, [op |-> "close"])
    /\ UNCHANGED <<serverVars, assertVars>>

ConsoleNext ==
    \/ ConsoleOpen
    \/ ConsoleClose

ConsoleSpec == Init /\ [][ConsoleNext]_vars

---------------------------------------------------------------------------
\* soft_assert! and the statements of tests::test_soft_assert.

\* The test's condition 2 + 2 == id(x): id counts its calls and returns x.
EvalCond(st, x) ==
    [value |-> (2 + 2 = x), st |-> [st EXCEPT !.execution_count = @ + 1]]

\* stringify!($cond): the text of the condition; nothing is evaluated.
Stringify(x) == <<"2 + 2 == id", x>>

\* Mutant of soft_assert: a false condition panics, as assert! does.
soft_assert_Abort(st, x, message) ==
    LET c == EvalCond(st, x)
    IN  IF ~c.value THEN [c.st EXCEPT !.value = "panic"]
        ELSE [c.st EXCEPT !.value = "unit"]

\* ($cond:expr, $($arg:tt)+): if !$cond { dbg_logf!(..) }
soft_assert(st, x, message) ==
    LET c == EvalCond(st, x)
    IN  IF ~c.value
        THEN [c.st EXCEPT !.logged = Append(@, <<"soft assertion failed", message>>),
                          !.value = "unit"]
        ELSE [c.st EXCEPT !.value = "unit"]

\* ($cond:expr $(,)?): soft_assert!($cond, stringify!($cond))
soft_assert_plain(st, x) == soft_assert(st, x, Stringify(x))

\* One statement of the test: the condition is true (id(4)) or false
\* (id(5)), with the default or with a custom message.
SoftAssert ==
    /\ sa_pc <= MaxAsserts
    /\ sa_value = "unit"
    /\ \E x \in {4, 5}, custom \in BOOLEAN :
           LET st == [execution_count |-> execution_count, logged |-> sa_logged,
                      value |-> sa_value]
               after == IF custom THEN soft_assert(st, x, <<"custom message", 42>>)
                        ELSE soft_assert_plain(st, x)
           IN  /\ execution_count' = after.execution_count
               /\ sa_logged' = after.logged
               /\ sa_value' = after.value
               /\ sa_pc' = IF after.value = "unit" THEN sa_pc + 1 ELSE sa_pc
               /\ sa_calls' = Append(sa_calls, [x |-> x, custom |-> custom])
    /\ UNCHANGED <<serverVars, consoleVars>>

SoftAssertNext == SoftAssert

SoftAssertSpec == Init /\ [][SoftAssertNext]_vars

\* The server with debug items emitted by update, and peers that connect and
\* only listen.
DebugNext ==
    \/ update
    \/ LoopIterate
    \/ LoopExit
    \/ AcceptOk
    \/ AcceptWouldBlock
    \/ SysReceive
    \/ Simulate
    \/ SysSendUpdate
    \/ DbgText
    \/ DbgShape

DebugSpec == Init /\ [][DebugNext]_vars

---------------------------------------------------------------------------
\* Reading the log of the last handler.

Last(q) == q[Len(q)]

\* The state right after `step` ran (to its end or to a panic).
AfterStep(step) ==
    /\ trace # <<>>
    /\ Last(trace) = step
    /\ pc \in {NextStep(step), "panicked"}

\* The state right after one accepted connection was handled.
AfterAccept ==
    /\ trace = <<"accept_new_connections">>
    /\ pc \in {"accept_new_connections", "panicked"}
    /\ log # <<>>

SendsTo(l, h, msg) == {i \in DOMAIN l : l[i].e = "send" /\ l[i].h = h /\ l[i].msg = msg}
SendsOf(l, type) == {i \in DOMAIN l : l[i].e = "send" /\ l[i].msg.type = type}
Frees(l, h) == {i \in DOMAIN l : l[i].e = "free" /\ l[i].h = h}
ClosedReceives(l) == {i \in DOMAIN l : l[i].e = "receive" /\ l[i].closed}
CyclesOf(player_handle) ==
    {c \in LiveHandles(cycles) : Borrow(cycles, c).player_handle = player_handle}

\* The recipients of the sends of one kind of message, in the order sent.
RECURSIVE Recipients(_, _)
Recipients(l, type) ==
    IF l = <<>> THEN <<>>
    ELSE (IF Head(l).e = "send" /\ Head(l).msg.type = type THEN <<Head(l).h>> ELSE <<>>)
         \o Recipients(Tail(l), type)

Broadcasts == {"AddPlayer", "SpawnCycle", "Join", "Observe", "Update"}

---------------------------------------------------------------------------
\* C1 (as claimed): after sys_receive, every client whose receive reported
\* closed has been freed exactly once, disconnect was never called with a
\* handle that is not live, its Player and Cycle are gone, RemovePlayer with
\* its player index was broadcast exactly once, and every client still live
\* was sent it exactly once.
C1_DisconnectConsistency ==
    AfterStep("sys_receive") =>
        \A i \in ClosedReceives(log) :
            LET h == log[i].h
                ph == log[i].player_handle
            IN  /\ Cardinality(Frees(log, h)) = 1
                /\ \A j \in DOMAIN log : log[j].e = "disconnect" => log[j].live
                /\ ~IsValidHandle(clients, h)
                /\ ~IsValidHandle(players, ph)
                /\ CyclesOf(ph) = {}
                /\ Cardinality({j \in DOMAIN log : log[j] = BroadcastEv(RemovePlayer(ph.index))}) = 1
                /\ \A a \in LiveHandles(clients) :
                       Cardinality(SendsTo(log, a, RemovePlayer(ph.index))) = 1

\* C2: the step sys_send_update attempts the Update once for each client
\* live when it starts, in registry order and whatever the outcome of the
\* sends before it, and all of them carry the same message.
C2_BroadcastCompleteness ==
    [][(pc = "sys_send_update" /\ pc' # pc) =>
          /\ Recipients(log', "Update") = PairIter(clients)
          /\ Cardinality({log'[i].msg : i \in SendsOf(log', "Update")}) <= 1]_vars

\* C2 witness: an Update whose send to one client failed was still sent to
\* a client after it.
C2_Witness ==
    /\ AfterStep("sys_send_update")
    /\ \E i, j \in SendsOf(log, "Update") : i < j /\ ~log[i].ok /\ log[j].h # log[i].h

\* C3 (as claimed): no client leaves the registry before a broadcast of the
\* same tick is sent, and a client found closed is still sent the Join and
\* Observe broadcasts queued before that was found.
C3_DeferredPruning ==
    /\ \A i, j \in DOMAIN log :
           ~(i < j /\ log[i].e = "free" /\ log[j].e = "send"
                   /\ log[j].msg.type \in Broadcasts)
    /\ AfterStep("sys_receive") =>
           \A i \in ClosedReceives(log) : \A k \in 1 .. i :
               log[k].e = "receive" =>
                   \A n \in DOMAIN log[k].messages :
                       LET m == log[k].messages[n]
                           idx == log[k].player_handle.index
                       IN  /\ m.type = "Join" => SendsTo(log, log[i].h, JoinMsg(idx)) # {}
                           /\ m.type = "Observe" =>
                                  SendsTo(log, log[i].h, ObserveMsg(idx)) # {}

\* C4 (as claimed): when a client's batch holds a Join and reports closed,
\* every surviving client is sent Join for its player, and RemovePlayer for
\* that player only after the Join.
C4_JoinBeforeRemovePlayer ==
    AfterStep("sys_receive") =>
        \A i \in ClosedReceives(log) :
            (\E n \in DOMAIN log[i].messages : log[i].messages[n].type = "Join") =>
                \A a \in LiveHandles(clients) :
                    LET idx == log[i].player_handle.index
                        joins == SendsTo(log, a, JoinMsg(idx))
                        removes == SendsTo(log, a, RemovePlayer(idx))
                    IN  /\ joins # {}
                        /\ \A r \in removes : \E j \in joins : j < r


\* The order of one iteration of the loop of update.
TickOrder ==
    <<"accept_new_connections", "would_block", "sys_receive", "simulate", "sys_send_update">>

IsPrefix(a, b) == Len(a) <= Len(b) /\ a = SubSeq(b, 1, Len(a))

\* C5: the steps of one iteration run in the order accept, would-block,
\* sys_receive, simulation, sys_send_update: a client is read only in the
\* step after would-block, the Update is sent only after the simulation step,
\* and the iteration is complete before the loop test that leads to the next
\* accept.
C5_TickOrder ==
    /\ IsPrefix(IF trace # <<>> /\ Last(trace) = "accept_error"
                THEN SubSeq(trace, 1, Len(trace) - 1) ELSE trace, TickOrder)
    /\ (\E i \in DOMAIN log : log[i].e = "receive") => trace = SubSeq(TickOrder, 1, 3)
    /\ SendsOf(log, "Update") # {} => trace = TickOrder
    /\ (pc \in {"loop", "idle"} /\ frame_number > 0) => trace = TickOrder
    /\ pc = "accept_new_connections" => trace = <<"accept_new_connections">>
    /\ pc = "sys_receive" => trace = SubSeq(TickOrder, 1, 2)
    /\ pc = "simulate" => trace = SubSeq(TickOrder, 1, 3)
    /\ pc = "sys_send_update" => trace = SubSeq(TickOrder, 1, 4)

\* C5 witness: the second iteration has run to its end and its Update was
\* sent to a client.
C5_Witness ==
    /\ pc = "loop"
    /\ frame_number = 2
    /\ trace = TickOrder
    /\ SendsOf(log, "Update") # {}

\* C6: between handlers, every live client refers to a live player, no two
\* clients to the same one, and every live player has a client.
C6_RegistryInvariant ==
    pc # "panicked" =>
        /\ \A h \in LiveHandles(clients) :
               IsValidHandle(players, Borrow(clients, h).player_handle)
        /\ \A h1, h2 \in LiveHandles(clients) :
               Borrow(clients, h1).player_handle = Borrow(clients, h2).player_handle
                   => h1 = h2
        /\ \A p \in LiveHandles(players) :
               \E h \in LiveHandles(clients) : Borrow(clients, h).player_handle = p

\* C6 witness: a handler that disconnected one client has ended and another
\* client is still live.
C6_Witness ==
    /\ pc # "panicked"
    /\ \E i \in DOMAIN log : log[i].e = "free"
    /\ LiveHandles(clients) # {}

\* C7 (as claimed): no player in state Observing has a cycle.
C7_ObserverHasNoCycle ==
    \A p \in LiveHandles(players) :
        Borrow(players, p).ps = "Observing" => CyclesOf(p) = {}

Min(S) == CHOOSE x \in S : \A y \in S : x <= y
Spawns(l) == {i \in DOMAIN l : l[i].e = "spawn"}
\* The clients live just before position k of the log of an accept that
\* started with the clients `before`.
LiveAt(l, before, k) ==
    (Range(before) \cup {l[i].h : i \in {j \in Spawns(l) : j < k}})
        \ {l[i].h : i \in {j \in 1 .. (k - 1) : l[j].e = "free"}}

\* C8: in the handling of one accepted connection, AddPlayer for the new
\* player is sent to exactly the clients live before it; InitData goes once,
\* to the new client only; SpawnCycle for the new player goes once to every
\* client live when it is broadcast (the new one among them if it is still
\* live); and a client from before is sent AddPlayer before SpawnCycle.
C8_AcceptFanOut ==
    [][(pc = "accept_new_connections" /\ accepted' = accepted + 1) =>
          LET l == log'
              before == PairIter(clients)
              idx == SpawnHandle(players).index
              news == {l[i].h : i \in Spawns(l)}
              adds == SendsOf(l, "AddPlayer")
              inits == SendsOf(l, "InitData")
              cycs == SendsOf(l, "SpawnCycle")
              k == IF cycs = {} THEN Len(l) + 1 ELSE Min(cycs)
          IN  /\ Recipients(l, "AddPlayer") = before
              /\ \A i \in adds : l[i].msg = AddPlayer(idx)
              /\ news \cap Range(before) = {}
              /\ \A i \in inits : l[i].h \in news /\ l[i].msg.local_player_index = idx
              /\ Cardinality(inits) = Cardinality(Spawns(l))
              /\ \A i \in cycs : l[i].msg.player_cycle.player_index = idx
              /\ (cycs # {} \/ pc' # "panicked") =>
                     /\ {l[i].h : i \in cycs} = LiveAt(l, before, k)
                     /\ Cardinality(cycs) = Cardinality(LiveAt(l, before, k))
                     /\ \A i \in inits : l[i].ok => l[i].h \in {l[j].h : j \in cycs}
              /\ \A j \in cycs : l[j].h \in Range(before) =>
                     \E i \in adds : i < j /\ l[i].h = l[j].h]_vars

\* C8 witness: a connection was accepted while another client was live; that
\* client was sent AddPlayer and then SpawnCycle, and the new client was sent
\* InitData and SpawnCycle.
C8_Witness ==
    /\ AfterAccept
    /\ \E a \in SendsOf(log, "AddPlayer"), i \in SendsOf(log, "InitData"),
          c1, c2 \in SendsOf(log, "SpawnCycle") :
           /\ log[c1].h = log[a].h /\ a < c1
           /\ log[c2].h = log[i].h /\ log[i].h # log[a].h

\* C9 (as claimed): a client that connects when there is no other player is
\* sent an InitData whose player_indices is empty.
C9_EmptyRoster ==
    [][(pc = "accept_new_connections" /\ accepted' = accepted + 1
            /\ LiveHandles(players) = {}) =>
          \A i \in SendsOf(log', "InitData") : log'[i].msg.player_indices = <<>>]_vars

\* C9 (amended): a client that connects when there is no other player is
\* sent an InitData whose player_indices holds exactly its own player index.
C9_OwnIndexRoster ==
    [][(pc = "accept_new_connections" /\ accepted' = accepted + 1
            /\ LiveHandles(players) = {}) =>
          /\ SendsOf(log', "InitData") # {}
          /\ \A i \in SendsOf(log', "InitData") :
                 /\ log'[i].msg.player_indices = <<log'[i].msg.local_player_index>>
                 /\ log'[i].msg.local_player_index = SpawnHandle(players).index]_vars

\* C9 witness: the first client ever has connected and was sent its InitData.
C9_Witness ==
    /\ AfterAccept
    /\ accepted = 1
    /\ \E i \in SendsOf(log, "InitData") : Len(log[i].msg.player_indices) = 1

\* The Join and Observe messages of a batch, and the broadcasts they queue.
JoinObserve(messages) == SelectSeq(messages, LAMBDA m : m.type \in {"Join", "Observe"})

RECURSIVE ExpectedQueue(_)
ExpectedQueue(l) ==
    IF l = <<>> THEN <<>>
    ELSE (IF Head(l).e = "receive"
          THEN [n \in DOMAIN JoinObserve(Head(l).messages) |->
                    [type |-> JoinObserve(Head(l).messages)[n].type,
                     player_index |-> Head(l).player_handle.index]]
          ELSE <<>>) \o ExpectedQueue(Tail(l))

RECURSIVE JoinObserveBroadcasts(_)
JoinObserveBroadcasts(l) ==
    IF l = <<>> THEN <<>>
    ELSE (IF Head(l).e = "broadcast" /\ Head(l).msg.type \in {"Join", "Observe"}
          THEN <<Head(l).msg>> ELSE <<>>) \o JoinObserveBroadcasts(Tail(l))

RECURSIVE JoinObserveSentTo(_, _)
JoinObserveSentTo(l, h) ==
    IF l = <<>> THEN <<>>
    ELSE (IF Head(l).e = "send" /\ Head(l).h = h /\ Head(l).msg.type \in {"Join", "Observe"}
          THEN <<Head(l).msg>> ELSE <<>>) \o JoinObserveSentTo(Tail(l), h)

\* C10 (as claimed): when a batch drained in sys_receive holds both a Join
\* and an Observe of one client, its player ends in the state of the later
\* one, and the Join and Observe broadcasts of this sys_receive are emitted,
\* and sent to every client, in the order the messages were processed.
C10_JoinObserveOrder ==
    (/\ AfterStep("sys_receive")
     /\ \E i \in DOMAIN log :
            log[i].e = "receive" /\ Len(JoinObserve(log[i].messages)) = 2
                /\ JoinObserve(log[i].messages)[1] # JoinObserve(log[i].messages)[2]) =>
        /\ \A i \in DOMAIN log :
               (/\ log[i].e = "receive"
                /\ JoinObserve(log[i].messages) # <<>>
                /\ IsValidHandle(players, log[i].player_handle)) =>
                   Borrow(players, log[i].player_handle).ps =
                       (IF Last(JoinObserve(log[i].messages)).type = "Join"
                        THEN "Playing" ELSE "Observing")
        /\ JoinObserveBroadcasts(log) = ExpectedQueue(log)
        /\ \A a \in LiveHandles(clients) : JoinObserveSentTo(log, a) = ExpectedQueue(log)

FailedSends(l) == {i \in DOMAIN l : l[i].e = "send" /\ ~l[i].ok}

\* C11: a message whose send to a client failed is never sent to that client
\* again; when a call of network_send returns, every client of its
\* `disconnected` list has been freed; and when the handler returns, every
\* client a send to which failed has been disconnected and is gone.
C11_NoRetry ==
    /\ \A i \in FailedSends(log) : \A j \in DOMAIN log :
           (i < j /\ log[j].e = "send" /\ log[j].h = log[i].h)
               => log[j].msg # log[i].msg
    /\ \A k \in DOMAIN log :
           log[k].e = "return" =>
               \A h \in Range(log[k].failed) : \E j \in Frees(log, h) : j < k
    /\ pc # "panicked" =>
           \A i \in FailedSends(log) :
               /\ ~IsValidHandle(clients, log[i].h)
               /\ \E j \in DOMAIN log :
                      i < j /\ log[j] = DisconnectEv(log[i].h, TRUE)

\* C11 witness: a handler has returned in which a send to a client failed,
\* that client was later sent another message (the RemovePlayer of a client
\* disconnected before it) and then disconnected.
C11_Witness ==
    /\ pc # "panicked"
    /\ \E i \in FailedSends(log) : \E j \in DOMAIN log :
           /\ i < j /\ log[j].e = "send" /\ log[j].h = log[i].h
           /\ ~IsValidHandle(clients, log[i].h)
    /\ \E k \in DOMAIN log : log[k].e = "return" /\ Len(log[k].failed) = 2

\* The client h had no transport error in the handler with the log l and
\* sent nothing that changes its player.
Untouched(l, h) ==
    /\ \A i \in FailedSends(l) : l[i].h # h
    /\ \A i \in DOMAIN l :
           (l[i].e = "receive" /\ l[i].h = h) => (~l[i].closed /\ l[i].messages = <<>>)

\* C12 (as claimed): a handler that disconnects a client does not end the
\* process (the simulation step of the tick still runs), and every client
\* that had no transport error itself keeps its registry entry, its Player
\* and its Cycles as they were.
C12_ErrorIsolation ==
    [][(\E i \in DOMAIN log' : log'[i].e = "free") =>
          /\ pc' # "panicked"
          /\ \A h \in LiveHandles(clients) :
                 Untouched(log', h) =>
                     LET ph == Borrow(clients, h).player_handle
                     IN  /\ IsValidHandle(clients', h)
                         /\ Borrow(clients', h) = Borrow(clients, h)
                         /\ IsValidHandle(players', ph)
                         /\ Borrow(players', ph) = Borrow(players, ph)
                         /\ {c \in LiveHandles(cycles') :
                                 Borrow(cycles', c).player_handle = ph} = CyclesOf(ph)]_vars

\* C13: in the accept phase a connection handed out is handled and the
\* listener is asked again; would-block ends the phase with the state as it
\* was and sys_receive next, and nothing else leads to sys_receive; any other
\* error ends the process, with nothing skipped.
C13_AcceptClassification ==
    [][/\ pc = "accept_new_connections" =>
              \/ /\ accepted' = accepted + 1
                 /\ pc' \in {"accept_new_connections", "panicked"}
                 /\ trace' = trace
              \/ /\ trace' = Append(trace, "would_block")
                 /\ pc' = "sys_receive"
                 /\ UNCHANGED <<clients, players, cycles, conns, accepted,
                                game_time, frame_number>>
              \/ /\ trace' = Append(trace, "accept_error")
                 /\ pc' = "panicked"
                 /\ UNCHANGED <<clients, players, cycles, conns, accepted,
                                game_time, frame_number>>
       /\ (pc' = "sys_receive" /\ pc # "sys_receive") => Last(trace') = "would_block"]_vars

\* C13 witness: in the first tick two connections were accepted one after
\* the other, then the listener reported would-block and the tick went on.
C13_Witness ==
    /\ frame_number = 1
    /\ accepted = 2
    /\ pc = "sys_receive"
    /\ trace = <<"accept_new_connections", "would_block">>

\* The player a batch of client messages leaves behind.
RECURSIVE ApplyMessages(_, _)
ApplyMessages(player, messages) ==
    IF messages = <<>> THEN player
    ELSE ApplyMessages(
             CASE Head(messages).type = "Input" -> [player EXCEPT !.input = Head(messages).input]
               [] Head(messages).type = "Join" -> [player EXCEPT !.ps = "Playing"]
               [] Head(messages).type = "Observe" -> [player EXCEPT !.ps = "Observing"]
               [] OTHER -> player,
             Tail(messages))

\* C14 (as claimed): when sys_receive reads a batch together with closed,
\* the messages of the batch are applied to the client's player before the
\* client is disconnected, and the Join and Observe broadcasts they queue
\* are all sent.
C14_BatchBeforeDisconnect ==
    [][(pc = "sys_receive" /\ pc' # pc) =>
          \A i \in ClosedReceives(log') :
              LET h == log'[i].h
                  before == Borrow(players, log'[i].player_handle)
              IN  /\ \E k \in DOMAIN log' :
                         /\ log'[k] = HandledEv(h, ApplyMessages(before, log'[i].messages))
                         /\ \A j \in DOMAIN log' :
                                (log'[j].e = "disconnect" /\ log'[j].h = h) => k < j
                  /\ JoinObserveBroadcasts(log') = ExpectedQueue(log')]_vars

\* The debug items in the buffers, and the items of the Update messages built
\* so far.
Buffered == Range(debug_texts) \cup Range(debug_shapes)
Delivered == {delivered[i].item : i \in DOMAIN delivered}

\* C15: the step sys_send_update puts exactly the items of the two buffers
\* into the Update it builds and leaves both buffers empty; no item is ever
\* in two Updates; an item emitted so far is either still buffered or was in
\* one Update; and an item is in the Update of the frame it was emitted in, or
\* of the next frame if it was emitted after that frame's sys_send_update.
C15_DebugConsumedOnce ==
    [][/\ (pc = "sys_send_update" /\ pc' # pc) =>
              /\ debug_texts' = <<>> /\ debug_shapes' = <<>>
              /\ \E i \in DOMAIN log' :
                     /\ log'[i].e = "broadcast"
                     /\ log'[i].msg.debug_texts = debug_texts
                     /\ log'[i].msg.debug_shapes = debug_shapes
              /\ \A i \in SendsOf(log', "Update") :
                     /\ log'[i].msg.debug_texts = debug_texts
                     /\ log'[i].msg.debug_shapes = debug_shapes
              /\ {delivered'[i] : i \in DOMAIN delivered'} =
                     {delivered[i] : i \in DOMAIN delivered}
                     \cup {[item |-> x, frame |-> frame_number] : x \in Buffered}
       /\ Len(delivered') = Cardinality(Delivered')
       /\ Buffered' \cap Delivered' = {}
       /\ {x.id : x \in Buffered' \cup Delivered'} = 1 .. emitted'
       /\ \A i \in DOMAIN delivered' :
              delivered'[i].frame =
                  delivered'[i].item.frame + (IF delivered'[i].item.after THEN 1 ELSE 0)]_vars

\* C15 witness: a text emitted after the sys_send_update of frame 1 and a
\* shape emitted before the one of frame 2 were both sent to a client in the
\* Update of frame 2, and the buffers are empty.
C15_Witness ==
    /\ AfterStep("sys_send_update")
    /\ frame_number = 2
    /\ Buffered = {}
    /\ \E i \in SendsOf(log, "Update") :
           /\ log[i].ok
           /\ \E x \in Range(log[i].msg.debug_texts) : x.after /\ x.frame = 1
           /\ \E x \in Range(log[i].msg.debug_shapes) : ~x.after /\ x.frame = 2

\* C16: no two live clients share a handle or a slot; a handle disconnect
\* has freed never resolves to a live client again; a live client in a slot
\* used before has a later generation than every freed handle of that slot;
\* and the handle a spawn returns was neither live nor freed before.
C16_HandleUniqueness ==
    [][/\ \A i, j \in DOMAIN PairIter(clients') :
              i # j => PairIter(clients')[i].index # PairIter(clients')[j].index
       /\ \A h \in freed' : ~IsValidHandle(clients', h)
       /\ \A h \in freed' : \A a \in LiveHandles(clients') :
              a.index = h.index => a.generation > h.generation
       /\ accepted' = accepted + 1 =>
              \A i \in Spawns(log') :
                  log'[i].h \notin freed /\ log'[i].h \notin LiveHandles(clients)]_vars

\* C16 witness: the only live client is in slot 0 with generation 2, and the
\* handle of generation 1 of slot 0 was freed.
C16_Witness ==
    /\ Handle(0, 1) \in freed
    /\ IsValidHandle(clients, Handle(0, 2))
    /\ Cardinality(LiveHandles(clients)) = 1

\* The outcomes of the sends of a handler, in the order of the sends.
RECURSIVE Outcomes(_)
Outcomes(l) ==
    IF l = <<>> THEN <<>>
    ELSE (IF Head(l).e = "send" THEN <<Head(l).ok>> ELSE <<>>) \o Outcomes(Tail(l))

\* Two runs of a handler from one state that see the same outcomes of their
\* sends end in the same state, having sent the same messages.
Deterministic(R) == Cardinality({Outcomes(r.log) : r \in R}) = Cardinality(R)

RECURSIVE LastOpenGrabbed(_)
LastOpenGrabbed(q) ==
    IF q = <<>> THEN FALSE
    ELSE IF Last(q).op = "open" THEN Last(q).grabbed
    ELSE LastOpenGrabbed(SubSeq(q, 1, Len(q) - 1))

\* C18: after any calls of open and close, is_open is true exactly when the
\* last call was open, and the last close returned the argument of the open
\* most recently before it.
C18_ConsoleOpenClose ==
    /\ is_open = (console_calls # <<>> /\ Last(console_calls).op = "open")
    /\ (console_calls # <<>> /\ Last(console_calls).op = "close") =>
           close_returned = LastOpenGrabbed(console_calls)

\* C18 witness: open(TRUE), open(FALSE), close, close: the second opening
\* replaced the argument of the first and both closes returned it.
C18_Witness ==
    /\ console_calls = <<[op |-> "open", grabbed |-> TRUE], [op |-> "open", grabbed |-> FALSE],
                         [op |-> "close"], [op |-> "close"]>>
    /\ ~is_open
    /\ close_returned = FALSE

\* The statements among q whose condition was false.
FalseCalls(q) == SelectSeq(q, LAMBDA c : 2 + 2 # c.x)

\* C19: after any statements soft_assert!, with a true or a false condition
\* and with or without a custom message, the condition was evaluated once
\* per statement, the last statement evaluated to unit, control is at the
\* statement after it, and there is one logged line per false condition.
C19_SoftAssertContinues ==
    /\ execution_count = Len(sa_calls)
    /\ sa_value = "unit"
    /\ sa_pc = Len(sa_calls) + 1
    /\ Len(sa_logged) = Len(FalseCalls(sa_calls))
    /\ \A i \in DOMAIN sa_logged :
           sa_logged[i][2] = (IF FalseCalls(sa_calls)[i].custom
                              THEN <<"custom message", 42>>
                              ELSE Stringify(FalseCalls(sa_calls)[i].x))

\* C19 witness: the four statements of the test have run (true, false, true
\* with a message, false with a message) and control is past them.
C19_Witness ==
    /\ sa_calls = <<[x |-> 4, custom |-> FALSE], [x |-> 5, custom |-> FALSE],
                    [x |-> 4, custom |-> TRUE], [x |-> 5, custom |-> TRUE]>>
    /\ sa_pc = 5
    /\ execution_count = 4
    /\ Len(sa_logged) = 2

\* The clients read by the receives of the log l, in the order read.
RECURSIVE ReceivedFrom(_)
ReceivedFrom(l) ==
    IF l = <<>> THEN <<>>
    ELSE (IF Head(l).e = "receive" THEN <<Head(l).h>> ELSE <<>>) \o ReceivedFrom(Tail(l))

\* The sends of the broadcast logged at position k: the sends right after it.
SendRun(l, k) ==
    {j \in DOMAIN l : j > k /\ \A m \in (k + 1) .. j : l[m].e = "send"}

\* C20 (as claimed): sys_receive drains every client live at its start, in
\* registry order, before anything else happens: every disconnect, free and
\* send comes after the last receive; and every Join and Observe queued is
\* then broadcast, once, to exactly the clients live when it is sent.
C20_ScanThenAct ==
    [][(pc = "sys_receive" /\ pc' # pc) =>
          /\ ReceivedFrom(log') = PairIter(clients)
          /\ \A i, j \in DOMAIN log' :
                 (log'[i].e \in {"receive", "handled"}
                      /\ log'[j].e \notin {"receive", "handled"}) => i < j
          /\ JoinObserveBroadcasts(log') = ExpectedQueue(log')
          /\ \A k \in DOMAIN log' :
                 (log'[k].e = "broadcast" /\ log'[k].msg.type \in {"Join", "Observe"}) =>
                     /\ {log'[j].h : j \in SendRun(log', k)} = LiveAt(log', PairIter(clients), k)
                     /\ Cardinality(SendRun(log', k)) =
                            Cardinality(LiveAt(log', PairIter(clients), k))
                     /\ \A j \in SendRun(log', k) : log'[j].msg = log'[k].msg]_vars

\* The Update broadcasts started in the log l.
UpdateBroadcasts(l) == {i \in DOMAIN l : l[i].e = "broadcast" /\ l[i].msg.type = "Update"}

\* C21: with time counted in units of dt, update enters an iteration exactly
\* when game_time + dt < game_time_target, and entering it adds dt to
\* game_time and 1 to frame_number; nothing else changes them; game_time
\* stays below the target once it has advanced; the step sys_send_update of
\* an iteration broadcasts one Update and no other step broadcasts any, and
\* the loop test is reached again only from that step; and when the loop test
\* fails, update returns with no accept, no receive and no broadcast made.
C21_FixedStepLoop ==
    [][/\ (pc = "loop" /\ game_time + 1 < game_time_target) =>
              /\ pc' = "accept_new_connections"
              /\ game_time' = game_time + 1
              /\ frame_number' = frame_number + 1
              /\ game_time' < game_time_target'
       /\ (pc = "loop" /\ game_time + 1 >= game_time_target) =>
              /\ pc' = "idle"
              /\ UNCHANGED <<game_time, frame_number, clients, players, cycles, conns,
                             accepted, log, trace, delivered>>
       /\ pc # "loop" => UNCHANGED <<game_time, frame_number>>
       /\ (pc = "sys_send_update" /\ pc' # pc) =>
              Cardinality(UpdateBroadcasts(log')) = 1
       /\ pc # "sys_send_update" => (log' = log \/ UpdateBroadcasts(log') = {})
       /\ (pc' = "loop" /\ pc # "loop") => pc \in {"idle", "sys_send_update"}
       /\ game_time' = 0 \/ game_time' < game_time_target']_vars

\* C21 witness: a call of update with the target 3 dt has run two iterations
\* from time 0, the second one broadcast its Update, and the call returned
\* with game_time at 2 dt.
C21_Witness ==
    /\ pc = "idle"
    /\ game_time = 2
    /\ game_time_target = 3
    /\ frame_number = 2
    /\ trace = TickOrder
    /\ Cardinality(UpdateBroadcasts(log)) = 1

\* The players of the clients freed in the log l before position k.
PlayersFreedBefore(l, k) ==
    {l[j].player_handle : j \in {n \in 1 .. (k - 1) : l[n].e = "free"}}

\* C22: the InitData sent to a newly accepted client lists in player_indices
\* the index of every player live when it is sent, once each, its own
\* included; local_player_index is the index of the new player; player_cycles
\* lists every cycle that exists then, once each, and not the cycle spawned
\* for the new player; and a client whose InitData was sent is afterwards sent
\* one SpawnCycle, which names its own player and a cycle index that the
\* InitData did not list.
C22_InitDataContent ==
    [][(pc = "accept_new_connections" /\ accepted' = accepted + 1) =>
          LET l == log'
              new == SpawnHandle(players)
          IN  \A k \in SendsOf(l, "InitData") :
                  LET msg == l[k].msg
                      gone == PlayersFreedBefore(l, k)
                      live == (LiveHandles(players) \cup {new}) \ gone
                      cyc == {c \in LiveHandles(cycles) :
                                  Borrow(cycles, c).player_handle \notin gone}
                      own == {j \in SendsOf(l, "SpawnCycle") : l[j].h = l[k].h}
                  IN  /\ Range(msg.player_indices) = {p.index : p \in live}
                      /\ Len(msg.player_indices) = Cardinality(live)
                      /\ msg.local_player_index = new.index
                      /\ new \in live
                      /\ msg.local_player_index \in Range(msg.player_indices)
                      /\ Range(msg.player_cycles) =
                             {PlayerCycle(Borrow(cycles, c).player_handle.index, c.index)
                              : c \in cyc}
                      /\ Len(msg.player_cycles) = Cardinality(cyc)
                      /\ \A j \in SendsOf(l, "SpawnCycle") :
                             l[j].msg.player_cycle \notin Range(msg.player_cycles)
                      /\ l[k].ok =>
                             /\ Cardinality(own) = 1
                             /\ \A j \in own :
                                    /\ k < j
                                    /\ l[j].msg.player_cycle.player_index = new.index
                                    /\ \A n \in DOMAIN msg.player_cycles :
                                           msg.player_cycles[n].cycle_index #
                                               l[j].msg.player_cycle.cycle_index]_vars

\* C22 witness: a second client was accepted while the first was live; its
\* InitData listed both players and the first one's cycle, and it was then
\* sent the SpawnCycle of its own cycle.
C22_Witness ==
    /\ AfterAccept
    /\ \E k \in SendsOf(log, "InitData"), j \in SendsOf(log, "SpawnCycle") :
           /\ log[k].ok /\ k < j /\ log[j].h = log[k].h
           /\ log[k].msg.player_indices = <<0, 1>>
           /\ log[k].msg.local_player_index = 1
           /\ log[k].msg.player_cycles = <<PlayerCycle(0, 0)>>
           /\ log[j].msg.player_cycle = PlayerCycle(1, 1)

\* C23 (as claimed): when accept_new_connections has returned, every cycle
\* refers to a live player that a live client controls; and in no handler is
\* SpawnCycle broadcast for a player whose RemovePlayer was broadcast before.
C23_NoOrphanCycle ==
    /\ (pc = "sys_receive" /\ trace = SubSeq(TickOrder, 1, 2)) =>
           \A c \in LiveHandles(cycles) :
               LET ph == Borrow(cycles, c).player_handle
               IN  /\ IsValidHandle(players, ph)
                   /\ \E h \in LiveHandles(clients) : Borrow(clients, h).player_handle = ph
    /\ \A i, j \in DOMAIN log :
           (/\ i < j
            /\ log[i].e = "broadcast" /\ log[i].msg.type = "RemovePlayer"
            /\ log[j].e = "broadcast" /\ log[j].msg.type = "SpawnCycle") =>
               log[j].msg.player_cycle.player_index # log[i].msg.player_index

\* C24 (as claimed): after a send to a client has failed, no send of any
\* message is attempted to that client.
C24_NoSendAfterFailure ==
    \A i \in FailedSends(log) : \A j \in DOMAIN log :
        (i < j /\ log[j].e = "send") => log[j].h # log[i].h

\* The indices of the players live in the game state.
LivePlayerIndices == {p.index : p \in LiveHandles(players)}

\* C25: when a tick has ended, the roster each live client's peer has from
\* the messages sent to it (the players of its InitData, with every AddPlayer
\* added and every RemovePlayer taken out) is the set of indices of the
\* players live in the game state.
C25_RosterConsistency ==
    (pc \in {"loop", "idle"} /\ frame_number > 0) =>
        \A h \in LiveHandles(clients) :
            /\ h \in DOMAIN roster
            /\ roster[h] = LivePlayerIndices

\* C25 witness: a tick has ended with the first client alone in the
\* registry; the second client was added to its roster and, once it was
\* disconnected, taken out again.
C25_Witness ==
    /\ pc = "loop"
    /\ frame_number > 0
    /\ LiveHandles(clients) = {Handle(0, 1)}
    /\ Handle(1, 1) \in freed
    /\ roster = (Handle(0, 1) :> {0})
    /\ LivePlayerIndices = {0}

\* The sends to the client h in the log l.
SendsToClient(l, h) == {i \in DOMAIN l : l[i].e = "send" /\ l[i].h = h}

\* C26: a client created by an accept was sent nothing before, and the first
\* message sent to it is the InitData that names its player; and no message
\* other than InitData is ever sent to a client that was not sent its
\* InitData before.
C26_InitDataFirst ==
    [][/\ (pc = "accept_new_connections" /\ accepted' = accepted + 1) =>
              \A k \in Spawns(log') :
                  LET h == log'[k].h
                      sends == SendsToClient(log', h)
                  IN  /\ h \notin inited
                      /\ h \notin DOMAIN roster
                      /\ sends # {}
                      /\ k < Min(sends)
                      /\ log'[Min(sends)].msg.type = "InitData"
                      /\ log'[Min(sends)].msg.local_player_index =
                             log'[k].player_handle.index
       /\ \A j \in DOMAIN log' :
              (log'[j].e = "send" /\ log'[j].msg.type # "InitData") =>
                  \/ log'[j].h \in inited
                  \/ \E i \in SendsOf(log', "InitData") : i < j /\ log'[i].h = log'[j].h]_vars

\* C26 witness: the first tick has ended with two clients that were each
\* sent InitData when accepted, and its Update was sent to both.
C26_Witness ==
    /\ pc = "loop"
    /\ frame_number = 1
    /\ inited = {Handle(0, 1), Handle(1, 1)}
    /\ LiveHandles(clients) = inited
    /\ \A h \in inited : \E i \in SendsOf(log, "Update") : log[i].h = h /\ log[i].ok

\* C27 (as claimed): whatever sends fail, every call of network_send and of
\* disconnect returns, each disconnect taking one live client out of the
\* registry; so the process ends in no handler, and a tick in which the
\* listener has reported would-block runs to its end.  (The fatal accept
\* error is the one way the process may end.)
C27_TickTerminates ==
    /\ \A k \in DOMAIN log : log[k].e = "disconnect" => log[k].live
    /\ pc = "panicked" => (trace # <<>> /\ Last(trace) = "accept_error")

===========================================================================
